---- MODULE Spec2Model ----
(***************************************************************************)
(* A model of dungeonsheets/character.py: the Character aggregate, its     *)
(* class entries, race and background, the hit point computation, the      *)
(* feature aggregation, the mechanic resolver and the multiclass spell     *)
(* slot calculator.                                                        *)
(***************************************************************************)
EXTENDS Integers, Sequences, FiniteSets, TLC

VARIABLES
    pc,               \* "new" (class defaults), "ready" (__init__ returned), "aborted" (__init__ raised)
    class_list,       \* Character.class_list: sequence of class entries
    _race,            \* Character._race
    _background,      \* Character._background
    constitution,     \* Character.constitution (the ability score)
    hp_max,           \* Character.hp_max
    custom_features,  \* Character.custom_features: sequence of feature names
    _spells,          \* Character._spells: sequence of spell names
    _spells_prepared, \* Character._spells_prepared: sequence of spell names
    warned,           \* TRUE when the last operation emitted a warning
    error,            \* the exception the last operation raised, or "none"
    ret               \* the last call and what it returned

vars == << pc, class_list, _race, _background, constitution, hp_max,
           custom_features, _spells, _spells_prepared, warned, error, ret >>

(***************************************************************************)
(* Bounds of the model.                                                    *)
(***************************************************************************)
\* Characters of one or two class entries are explored with each entry up to this level,
MaxLevel == 10
\* and characters of three class entries with each entry up to this level.
MaxTripleLevel == 2
\* A character whose class list is changed after construction is explored up
\* to this number of entries,
MaxClasses == 2
\* with levels up to this one.
MaxLifeLevel == 2
\* Descriptions declare up to this number of features.
MaxCustomFeatures == 2
\* Descriptions give an explicit hp_max from -1 up to this number.
MaxExplicitHp == 3
\* Descriptions and set_attrs declare up to this number of spells at a time.
MaxSpells == 2
\* Names given to the resolver are up to this long.
MaxNameLen == 3
\* Characters of many classes are explored up to this number of entries,
MaxWide == 5
\* each entry of this level.
WideLevel == 2

(***************************************************************************)
(* The class catalog (dungeonsheets.classes), as far as the character      *)
(* reads it.                                                               *)
(***************************************************************************)
ClassNames ==
    { "Artificer", "Barbarian", "Bard", "Cleric", "Druid", "Fighter", "Monk",
      "Paladin", "Ranger", "Rogue", "Sorceror", "Warlock", "Wizard" }

NoSubclass == "None"

\* The subclasses that turn a Fighter or a Rogue into a spellcaster.
SubclassesOf(name) ==
    IF name = "Fighter" THEN {NoSubclass, "Eldritch Knight"}
    ELSE IF name = "Rogue" THEN {NoSubclass, "Arcane Trickster"}
    ELSE {NoSubclass}

\* cls(level, owner=self, subclass=subclass, ...): one class entry; features is
\* what the catalog makes the entry grant (CharClass.features).
ClassEntry(name, level, subclass, features) ==
    [name |-> name, level |-> level, subclass |-> subclass, features |-> features]

\* CharClass.hit_dice_faces, fixed per class.
HitDiceFaces(name) ==
    IF name \in {"Sorceror", "Wizard"} THEN 6
    ELSE IF name \in {"Fighter", "Paladin", "Ranger"} THEN 10
    ELSE IF name = "Barbarian" THEN 12
    ELSE 8

\* CharClass.is_spellcaster.
IsSpellcasterEntry(c) ==
    \/ c.name \in {"Artificer", "Bard", "Cleric", "Druid", "Paladin", "Ranger",
                   "Sorceror", "Warlock", "Wizard"}
    \/ c.subclass \in {"Eldritch Knight", "Arcane Trickster"}

\* multiclass_spellslots_by_level: row n is character level n,
\* column k + 1 is spell level k (column 1 holds the cantrips).
multiclass_spellslots_by_level ==
    << <<0, 2, 0, 0, 0, 0, 0, 0, 0, 0>>,
       <<0, 3, 0, 0, 0, 0, 0, 0, 0, 0>>,
       <<0, 4, 2, 0, 0, 0, 0, 0, 0, 0>>,
       <<0, 4, 3, 0, 0, 0, 0, 0, 0, 0>>,
       <<0, 4, 3, 2, 0, 0, 0, 0, 0, 0>>,
       <<0, 4, 3, 3, 0, 0, 0, 0, 0, 0>>,
       <<0, 4, 3, 3, 1, 0, 0, 0, 0, 0>>,
       <<0, 4, 3, 3, 2, 0, 0, 0, 0, 0>>,
       <<0, 4, 3, 3, 3, 1, 0, 0, 0, 0>>,
       <<0, 4, 3, 3, 3, 2, 0, 0, 0, 0>>,
       <<0, 4, 3, 3, 3, 2, 1, 0, 0, 0>>,
       <<0, 4, 3, 3, 3, 2, 1, 0, 0, 0>>,
       <<0, 4, 3, 3, 3, 2, 1, 1, 0, 0>>,
       <<0, 4, 3, 3, 3, 2, 1, 1, 0, 0>>,
       <<0, 4, 3, 3, 3, 2, 1, 1, 1, 0>>,
       <<0, 4, 3, 3, 3, 2, 1, 1, 1, 0>>,
       <<0, 4, 3, 3, 3, 2, 1, 1, 1, 1>>,
       <<0, 4, 3, 3, 3, 3, 1, 1, 1, 1>>,
       <<0, 4, 3, 3, 3, 3, 2, 1, 1, 1>>,
       <<0, 4, 3, 3, 3, 3, 2, 2, 1, 1>> >>

SpellLevels == 0 .. 9

CeilDiv(a, b) == (a + b - 1) \div b

\* The cantrips a spellcasting class entry knows (the class's own table, column 0).
ClassCantrips(c) ==
    LET steps == (IF c.level >= 4 THEN 1 ELSE 0) + (IF c.level >= 10 THEN 1 ELSE 0)
    IN  IF c.name \in {"Cleric", "Wizard"} THEN 3 + steps
        ELSE IF c.name = "Sorceror" THEN 4 + steps
        ELSE IF c.name \in {"Bard", "Druid", "Warlock"} THEN 2 + steps
        ELSE IF c.name = "Artificer"
            THEN 2 + (IF c.level >= 10 THEN 1 ELSE 0) + (IF c.level >= 14 THEN 1 ELSE 0)
        ELSE IF c.name = "Fighter" /\ c.level >= 3
            THEN 2 + (IF c.level >= 10 THEN 1 ELSE 0)
        ELSE IF c.name = "Rogue" /\ c.level >= 3
            THEN 3 + (IF c.level >= 10 THEN 1 ELSE 0)
        ELSE 0

\* The row of the full caster progression a class entry of this level reads.
ClassSlotRow(c) ==
    IF c.name \in {"Bard", "Cleric", "Druid", "Sorceror", "Wizard"} THEN c.level
    ELSE IF c.name = "Artificer" THEN CeilDiv(c.level, 2)
    ELSE IF c.name \in {"Paladin", "Ranger"}
        THEN (IF c.level >= 2 THEN CeilDiv(c.level, 2) ELSE 0)
    ELSE IF c.name \in {"Fighter", "Rogue"}
        THEN (IF c.level >= 3 THEN CeilDiv(c.level, 3) ELSE 0)
    ELSE 0

\* Pact Magic: the number of slots a Warlock has, all of one spell level.
PactSlotCount(level) ==
    IF level >= 17 THEN 4 ELSE IF level >= 11 THEN 3 ELSE IF level >= 2 THEN 2 ELSE 1

PactSlotLevel(level) == IF CeilDiv(level, 2) > 5 THEN 5 ELSE CeilDiv(level, 2)

\* CharClass.spell_slots(spell_level): the class entry's own table.
ClassSpellSlots(c, spell_level) ==
    IF ~IsSpellcasterEntry(c) THEN 0
    ELSE IF spell_level = 0 THEN ClassCantrips(c)
    ELSE IF c.name = "Warlock"
        THEN (IF spell_level = PactSlotLevel(c.level) THEN PactSlotCount(c.level) ELSE 0)
    ELSE IF ClassSlotRow(c) = 0 THEN 0
    ELSE multiclass_spellslots_by_level[ClassSlotRow(c)][spell_level + 1]

(***************************************************************************)
(* Character: the class list and what is derived from it.                  *)
(***************************************************************************)
\* Character.spellcasting_classes
spellcasting_classes(cl) == SelectSeq(cl, IsSpellcasterEntry)

IsWarlock(c) == c.name = "Warlock"

IsNotWarlock(c) == ~IsWarlock(c)

\* Character.spellcasting_classes_excluding_warlock
spellcasting_classes_excluding_warlock(cl) ==
    SelectSeq(spellcasting_classes(cl), IsNotWarlock)

RECURSIVE SumSeq(_)
SumSeq(s) == IF s = << >> THEN 0 ELSE Head(s) + SumSeq(Tail(s))

\* WarlockSlots with the loop over the Warlock entries left out.
WarlockSlots_Skipped(cl, spell_level) == 0

\* The loop at the head of spell_slots: the last Warlock entry sets warlock_slots.
WarlockSlots(cl, spell_level) ==
    LET ws == SelectSeq(spellcasting_classes(cl), IsWarlock)
    IN  IF ws = << >> THEN 0 ELSE ClassSpellSlots(ws[Len(ws)], spell_level)

\* EffLevelContribution with the half casters rounded up instead of down.
EffLevelContribution_HalfRoundedUp(c) ==
    IF c.name \in {"Bard", "Cleric", "Druid", "Sorceror", "Wizard"} THEN c.level
    ELSE IF c.name \in {"Paladin", "Ranger"} THEN CeilDiv(c.level, 2)
    ELSE IF c.name \in {"Fighter", "Rogue"} THEN c.level \div 3
    ELSE IF c.name = "Artificer" THEN CeilDiv(c.level, 2)
    ELSE 0

\* A contribution that counts every level of an entry twice.
EffLevelContribution_Doubled(c) ==
    IF c.name \in {"Bard", "Cleric", "Druid", "Sorceror", "Wizard"} THEN 2 * c.level
    ELSE IF c.name \in {"Paladin", "Ranger"} THEN c.level
    ELSE IF c.name \in {"Fighter", "Rogue"} THEN 2 * (c.level \div 3)
    ELSE IF c.name = "Artificer" THEN c.level + 1
    ELSE 0

\* What one class entry adds to eff_level (PHB pg 164).
EffLevelContribution(c) ==
    IF c.name \in {"Bard", "Cleric", "Druid", "Sorceror", "Wizard"} THEN c.level
    ELSE IF c.name \in {"Paladin", "Ranger"} THEN c.level \div 2
    ELSE IF c.name \in {"Fighter", "Rogue"} THEN c.level \div 3
    ELSE IF c.name = "Artificer" THEN CeilDiv(c.level, 2)
    ELSE 0

\* eff_level after the loop over spellcasting_classes_excluding_warlock.
EffLevel(cl) ==
    LET cs == spellcasting_classes_excluding_warlock(cl)
    IN  SumSeq([i \in 1 .. Len(cs) |-> EffLevelContribution(cs[i])])

\* multiclass_spellslots_by_level[eff_level][spell_level]; see spell_slots_raises
\* for a key the table does not hold.
TableLookup(eff_level, spell_level) ==
    IF eff_level \in DOMAIN multiclass_spellslots_by_level
    THEN multiclass_spellslots_by_level[eff_level][spell_level + 1]
    ELSE 0

\* spell_slots raises KeyError exactly when it reads a row the table does not hold.
spell_slots_raises(cl, spell_level) ==
    /\ Len(spellcasting_classes_excluding_warlock(cl)) >= 2
    /\ spell_level # 0
    /\ EffLevel(cl) # 0
    /\ EffLevel(cl) \notin DOMAIN multiclass_spellslots_by_level

\* spell_slots with the Warlock slots forgotten for a single other spellcaster.
spell_slots_SingleWithoutWarlock(cl, spell_level) ==
    LET warlock_slots == WarlockSlots(cl, spell_level)
        others == spellcasting_classes_excluding_warlock(cl)
        casters == spellcasting_classes(cl)
    IN  IF Len(others) = 0 THEN warlock_slots
        ELSE IF Len(others) = 1 THEN ClassSpellSlots(others[1], spell_level)
        ELSE IF spell_level = 0
            THEN SumSeq([i \in 1 .. Len(casters) |-> ClassSpellSlots(casters[i], 0)])
        ELSE IF EffLevel(cl) = 0 THEN warlock_slots
        ELSE TableLookup(EffLevel(cl), spell_level) + warlock_slots

\* spell_slots with the cantrips read from the pooled table like any other level.
spell_slots_CantripsPooled(cl, spell_level) ==
    LET warlock_slots == WarlockSlots(cl, spell_level)
        others == spellcasting_classes_excluding_warlock(cl)
    IN  IF Len(others) = 0 THEN warlock_slots
        ELSE IF Len(others) = 1
            THEN ClassSpellSlots(others[1], spell_level) + warlock_slots
        ELSE IF EffLevel(cl) = 0 THEN warlock_slots
        ELSE TableLookup(EffLevel(cl), spell_level) + warlock_slots

\* Character.spell_slots(spell_level): the value it returns when it does not raise.
spell_slots(cl, spell_level) ==
    LET warlock_slots == WarlockSlots(cl, spell_level)
        others == spellcasting_classes_excluding_warlock(cl)
        casters == spellcasting_classes(cl)
    IN  IF Len(others) = 0 THEN warlock_slots
        ELSE IF Len(others) = 1
            THEN ClassSpellSlots(others[1], spell_level) + warlock_slots
        ELSE IF spell_level = 0
            THEN SumSeq([i \in 1 .. Len(casters) |-> ClassSpellSlots(casters[i], 0)])
        ELSE IF EffLevel(cl) = 0 THEN warlock_slots
        ELSE TableLookup(EffLevel(cl), spell_level) + warlock_slots

(***************************************************************************)
(* Python values and strings.  A raw name typed by the user is a sequence  *)
(* of one-character strings, so that str.title, str.strip and str.replace  *)
(* act on its characters.                                                  *)
(***************************************************************************)
None == [kind |-> "None"]

IntValue(n) == [kind |-> "int", val |-> n]

Lowercase ==
    << "a", "b", "c", "d", "e", "f", "g", "h", "i", "j", "k", "l", "m",
       "n", "o", "p", "q", "r", "s", "t", "u", "v", "w", "x", "y", "z" >>

Uppercase ==
    << "A", "B", "C", "D", "E", "F", "G", "H", "I", "J", "K", "L", "M",
       "N", "O", "P", "Q", "R", "S", "T", "U", "V", "W", "X", "Y", "Z" >>

Letters ==
    { Lowercase[i] : i \in DOMAIN Lowercase } \cup { Uppercase[i] : i \in DOMAIN Uppercase }

IsLetter(ch) == ch \in Letters

LetterIndex(ch) == CHOOSE i \in DOMAIN Lowercase : Lowercase[i] = ch \/ Uppercase[i] = ch

\* str.upper() and str.lower() of every letter.
UpperOf == [ch \in Letters |-> Uppercase[LetterIndex(ch)]]

LowerOf == [ch \in Letters |-> Lowercase[LetterIndex(ch)]]

Upper(ch) == IF IsLetter(ch) THEN UpperOf[ch] ELSE ch

Lower(ch) == IF IsLetter(ch) THEN LowerOf[ch] ELSE ch

\* str.title(): a letter that follows a letter is lowered, any other letter is raised.
Title(s) ==
    [i \in 1 .. Len(s) |->
        IF ~IsLetter(s[i]) THEN s[i]
        ELSE IF i > 1 /\ IsLetter(s[i - 1]) THEN Lower(s[i])
        ELSE Upper(s[i])]

\* str.replace(old, new) for one-character old and new.
Replace(s, old, new) == [i \in 1 .. Len(s) |-> IF s[i] = old THEN new ELSE s[i]]

\* str.replace(old, "") for a one-character old.
Remove(s, old) == SelectSeq(s, LAMBDA ch : ch # old)

RECURSIVE StripLeft(_)
StripLeft(s) == IF s # << >> /\ Head(s) = " " THEN StripLeft(Tail(s)) ELSE s

RECURSIVE StripRight(_)
StripRight(s) ==
    IF s # << >> /\ s[Len(s)] = " " THEN StripRight(SubSeq(s, 1, Len(s) - 1)) ELSE s

\* str.strip()
Strip(s) == StripRight(StripLeft(s))

\* The Python string a sequence of characters spells.
RECURSIVE Join(_)
Join(s) == IF s = << >> THEN "" ELSE Head(s) \o Join(Tail(s))

\* A reference that is a name typed by the user.
Str(chars) == [kind |-> "str", chars |-> chars]

\* A reference that already is a type of the catalog (or a subclass of it).
Type(name) == [kind |-> "type", name |-> name]

(***************************************************************************)
(* _resolve_mechanic                                                       *)
(***************************************************************************)
\* "".join([s.capitalize() for s in name.split("_")]) after blanks became "_".
CamelCase(s) ==
    LET u == Replace(s, " ", "_")
    IN  Remove([i \in 1 .. Len(u) |->
                    IF ~IsLetter(u[i]) THEN u[i]
                    ELSE IF i > 1 /\ u[i - 1] # "_" THEN Lower(u[i])
                    ELSE Upper(u[i])], "_")

\* stats.findattr(module, name): the attribute of the module the name stands
\* for, None standing for the AttributeError it raises when there is none.
FindAttr(catalog, chars) ==
    LET attr == Join(CamelCase(Strip(chars)))
    IN  IF attr \in catalog THEN Type(attr) ELSE None

\* A warning_message is None or a template "<before>{}<after>".
Template(before, after) == [kind |-> "template", before |-> before, after |-> after]

\* warning_message.format(mechanic)
Format(template, chars) == template.before \o Join(chars) \o template.after

\* A class that keeps the raw name.
GenericMechanic_RawName(chars, msg) ==
    [kind |-> "type", name |-> Join(chars), doc |-> msg, source |-> "Unknown"]

\* The class type(class_name, (SuperClass,), attrs) builds for an unknown name.
GenericMechanic(chars, msg) ==
    [ kind |-> "type",
      name |-> Join(Title(Replace(chars, "_", " "))),
      doc |-> msg,
      source |-> "Unknown" ]

\* _resolve_mechanic(mechanic, module, SuperClass, warning_message): the class
\* it returns and whether it warned.
ResolveMechanic(mechanic, catalog, warning_message) ==
    IF mechanic.kind = "type"
    THEN [Mechanic |-> mechanic, warned |-> FALSE]
    ELSE LET found == FindAttr(catalog, mechanic.chars) IN
    IF found # None
    THEN [Mechanic |-> found, warned |-> FALSE]
    ELSE IF warning_message # None
    THEN [ Mechanic |-> GenericMechanic(mechanic.chars,
                                        Format(warning_message, mechanic.chars)),
           warned |-> TRUE ]
    ELSE [ Mechanic |-> GenericMechanic(mechanic.chars,
               "Mechanic \"" \o Join(mechanic.chars) \o "\" not defined. Please add it."),
           warned |-> FALSE ]

(***************************************************************************)
(* Race and background                                                     *)
(***************************************************************************)
\* The names dungeonsheets.race and dungeonsheets.background define.
RaceCatalog == {"Elf", "Human", "HillDwarf", "Aasimar"}

BackgroundCatalog == {"Acolyte", "Soldier"}

\* A Race instance; features is what the object grants (Race.features).
Race(name, features) == [kind |-> "Race", name |-> name, features |-> features]

\* race.Race(owner=self): the generic race.
GenericRace == Race("Race", {})

\* What the races of the catalog grant.
CatalogRace(name) ==
    Race(name, IF name = "Elf" THEN {"Darkvision", "Fey Ancestry"}
               ELSE IF name \in {"HillDwarf", "Aasimar"} THEN {"Darkvision"}
               ELSE {})

\* race.features_by_level[lvl]: what a race grants from a level on; a level
\* without an entry grants nothing.
FeaturesByLevel(r, lvl) ==
    IF r.name = "Aasimar" /\ lvl = 3 THEN {"Radiant Soul"} ELSE {}

\* A Background instance.
Background(name, features) ==
    [kind |-> "Background", name |-> name, features |-> features]

\* background.Background(owner=self): the generic background.
GenericBackground == Background("Background", {})

CatalogBackground(name) ==
    Background(name, IF name = "Acolyte" THEN {"Shelter of the Faithful"} ELSE {})

\* A reference that already is an instance.
Instance(obj) == [kind |-> "instance", obj |-> obj]

\* The race setter: the new _race and whether it warned.
race_setter(old, newrace) ==
    IF newrace.kind = "instance" THEN [value |-> newrace.obj, warned |-> FALSE]
    ELSE IF newrace.kind = "type" THEN [value |-> CatalogRace(newrace.name), warned |-> FALSE]
    ELSE IF newrace.kind = "str"
        THEN IF FindAttr(RaceCatalog, newrace.chars) # None
             THEN [ value |-> CatalogRace(FindAttr(RaceCatalog, newrace.chars).name),
                    warned |-> FALSE ]
             ELSE [value |-> GenericRace, warned |-> TRUE]
    ELSE IF newrace = None THEN [value |-> GenericRace, warned |-> FALSE]
    ELSE [value |-> old, warned |-> FALSE]

\* The background setter: the new _background and whether it warned.
background_setter(old, bg) ==
    IF bg.kind = "instance" THEN [value |-> bg.obj, warned |-> FALSE]
    ELSE IF bg.kind = "type" THEN [value |-> CatalogBackground(bg.name), warned |-> FALSE]
    ELSE IF bg.kind = "str"
        THEN IF FindAttr(BackgroundCatalog, bg.chars) # None
             THEN [ value |-> CatalogBackground(FindAttr(BackgroundCatalog, bg.chars).name),
                    warned |-> FALSE ]
             ELSE [value |-> GenericBackground, warned |-> TRUE]
    ELSE [value |-> old, warned |-> FALSE]

(***************************************************************************)
(* Class entries                                                           *)
(***************************************************************************)
Digits == << "0", "1", "2", "3", "4", "5", "6", "7", "8", "9" >>

IsDigit(ch) == \E i \in DOMAIN Digits : Digits[i] = ch

DigitValue(ch) == (CHOOSE i \in DOMAIN Digits : Digits[i] = ch) - 1

RECURSIVE DecimalValue(_)
DecimalValue(s) ==
    IF s = << >> THEN 0
    ELSE 10 * DecimalValue(SubSeq(s, 1, Len(s) - 1)) + DigitValue(s[Len(s)])

\* int(level) for a string: None stands for the ValueError of a malformed one.
ParseInt(chars) ==
    LET t == Strip(chars)
    IN  IF t # << >> /\ \A i \in DOMAIN t : IsDigit(t[i])
        THEN IntValue(DecimalValue(t))
        ELSE None

\* A Python list.
List(items) == [kind |-> "list", items |-> items]

\* The outcome of an operation on class_list: the list it leaves and what it raised.
Outcome(cl, raised) == [class_list |-> cl, error |-> raised]

\* An add_class that falls back on a stand-in class for a name it does not know.
add_class_Fallback(cl, cls, level, subclass, grants) ==
    LET known == cls.kind # "str"
                 \/ Join(Remove(Title(Strip(cls.chars)), " ")) \in ClassNames
        name == IF ~known THEN "Fighter"
                ELSE IF cls.kind = "str" THEN Join(Remove(Title(Strip(cls.chars)), " "))
                ELSE cls.name
        lvl == IF level.kind = "str" THEN ParseInt(level.chars) ELSE level
    IN  IF lvl = None THEN Outcome(cl, "ValueError")
        ELSE Outcome(Append(cl, ClassEntry(name, lvl.val, subclass, grants)), "none")

\* An add_class that puts the new entry in front of the others.
add_class_Prepended(cl, cls, level, subclass, grants) ==
    LET name == IF cls.kind = "str"
                THEN Join(Remove(Title(Strip(cls.chars)), " "))
                ELSE cls.name
        lvl == IF level.kind = "str" THEN ParseInt(level.chars) ELSE level
    IN  IF cls.kind = "str" /\ name \notin ClassNames THEN Outcome(cl, "AttributeError")
        ELSE IF lvl = None THEN Outcome(cl, "ValueError")
        ELSE Outcome(<< ClassEntry(name, lvl.val, subclass, grants) >> \o cl, "none")

\* Character.add_class(cls, level, subclass): grants is what the catalog makes
\* the new entry grant.
add_class(cl, cls, level, subclass, grants) ==
    LET name == IF cls.kind = "str"
                THEN Join(Remove(Title(Strip(cls.chars)), " "))
                ELSE cls.name
        lvl == IF level.kind = "str" THEN ParseInt(level.chars) ELSE level
    IN  IF cls.kind = "str" /\ name \notin ClassNames THEN Outcome(cl, "AttributeError")
        ELSE IF lvl = None THEN Outcome(cl, "ValueError")
        ELSE Outcome(Append(cl, ClassEntry(name, lvl.val, subclass, grants)), "none")

\* The loop of add_classes over zip(classes_list, levels, subclasses).
RECURSIVE AddEach(_, _, _, _, _, _)
AddEach(cl, i, classes_list, levels, subclasses, grants) ==
    IF i > Len(classes_list) \/ i > Len(levels) \/ i > Len(subclasses)
    THEN Outcome(cl, "none")
    ELSE LET one == add_class(cl, classes_list[i], levels[i], subclasses[i],
                              IF i \in DOMAIN grants THEN grants[i] ELSE {})
         IN  IF one.error # "none" THEN one
             ELSE AddEach(one.class_list, i + 1, classes_list, levels, subclasses, grants)

\* Character.add_classes(classes_list, levels, subclasses): each argument is a
\* list or a single value.
add_classes(cl, classes_list, levels, subclasses, grants) ==
    LET cs == IF classes_list.kind = "str" THEN << classes_list >> ELSE classes_list.items
        ls0 == IF levels.kind \in {"int", "str"} THEN << levels >> ELSE levels.items
        ls == IF Len(ls0) = 0 THEN [i \in 1 .. Len(cs) |-> IntValue(1)] ELSE ls0
        ss0 == IF subclasses.kind = "str" THEN << subclasses.name >> ELSE subclasses.items
        ss == IF Len(ss0) = 0 THEN [i \in 1 .. Len(cs) |-> NoSubclass] ELSE ss0
    IN  IF Len(cs) # Len(ls) THEN Outcome(cl, "TypeError")
        ELSE IF Len(cs) # Len(ss) THEN Outcome(cl, "AssertionError")
        ELSE AddEach(cl, 1, cs, ls, ss, grants)

\* Character.level
level(cl) == SumSeq([i \in 1 .. Len(cl) |-> cl[i].level])

\* Character.num_classes
num_classes(cl) == Len(cl)

\* Character.has_class
has_class(cl) == num_classes(cl) > 0

\* Character.primary_class: the first entry of class_list.
primary_class(cl) == IF has_class(cl) THEN cl[1] ELSE None

\* A level setter that gives every entry the new level.
level_setter_EveryEntry(cl, new_level) ==
    [ class_list |-> [i \in DOMAIN cl |-> [cl[i] EXCEPT !.level = new_level]],
      warned |-> num_classes(cl) > 1 ]

\* The level setter: primary_class.level = new_level, warning when multiclass.
level_setter(cl, new_level) ==
    [ class_list |-> [cl EXCEPT ![1].level = new_level],
      warned |-> Len(cl) > 1 ]

\* A bonus whose steps come one level late.
proficiency_bonus_LateStep(cl) ==
    IF level(cl) < 6 THEN 2
    ELSE IF level(cl) < 10 THEN 3
    ELSE IF level(cl) < 14 THEN 4
    ELSE IF level(cl) < 18 THEN 5
    ELSE 6

\* Character.proficiency_bonus
proficiency_bonus(cl) ==
    IF level(cl) < 5 THEN 2
    ELSE IF 5 <= level(cl) /\ level(cl) < 9 THEN 3
    ELSE IF 9 <= level(cl) /\ level(cl) < 13 THEN 4
    ELSE IF 13 <= level(cl) /\ level(cl) < 17 THEN 5
    ELSE 6

(***************************************************************************)
(* Hit points                                                              *)
(***************************************************************************)
\* Ability.modifier of an ability score.
ScoreModifier(score) == (score - 10) \div 2

\* The score an Ability holds when the description sets none.
DefaultScore == 10

\* int(n / 2): the float is cut towards zero.
TruncHalf(n) == IF n >= 0 THEN n \div 2 ELSE -((-n) \div 2)

\* A loop that counts every level of every entry.
CountedLevels_EveryLevel(cl, i) == cl[i].level

\* levels of one entry in the loop of __set_max_hp: the primary entry counts one less.
CountedLevels(cl, i) == cl[i].level - (IF i = 1 THEN 1 ELSE 0)

\* int(hp_per_lvl * levels) with hp_per_lvl = hit_dice_faces / 2 + 1 + const_mod.
HpForLevels(faces, const_mod, levels) == TruncHalf((faces + 2 + 2 * const_mod) * levels)

\* The loop of __set_max_hp from entry i on; hp is self.hp_max so far.
RECURSIVE HpLoop(_, _, _, _)
HpLoop(cl, i, hp, const_mod) ==
    IF i > Len(cl) THEN [hp_max |-> IntValue(hp), error |-> "none"]
    ELSE IF CountedLevels(cl, i) < 0
        THEN [hp_max |-> IntValue(hp), error |-> "AssertionError"]
    ELSE HpLoop(cl, i + 1,
                hp + HpForLevels(HitDiceFaces(cl[i].name), const_mod, CountedLevels(cl, i)),
                const_mod)

\* bool(value) of a description value.
Truthy(value) ==
    \/ value.kind = "int" /\ value.val # 0
    \/ value.kind = "str" /\ value.chars # << >>

\* Character.__set_max_hp(hp_max): current is self.hp_max before the call.
set_max_hp(current, hp_arg, cl, score) ==
    IF Truthy(hp_arg)
    THEN IF hp_arg.kind = "int" THEN [hp_max |-> hp_arg, error |-> "none"]
         ELSE [hp_max |-> current, error |-> "AssertionError"]
    ELSE HpLoop(cl, 1, HitDiceFaces(cl[1].name) + ScoreModifier(score),
                ScoreModifier(score))

(***************************************************************************)
(* Construction                                                            *)
(***************************************************************************)
FeatureCatalog == {"Darkvision", "Alert", "FightingStyleArchery"}

\* The names dungeonsheets.spells defines, as far as the model gives them.
SpellCatalog == {"MageHand", "Ab", "AB", "Shield", "Light"}

\* The message of set_attrs for an unknown spell (its backquotes left out).
SpellWarning == Template("Spell \"", "\" not defined. Please add it to spells.py")

\* The spell names the model uses, in the order of their names.
SpellOrder == << "Hocus Pocus", "Light", "Shield" >>

SpellRank(name) == CHOOSE i \in DOMAIN SpellOrder : SpellOrder[i] = name

\* The sequence without its element at position i.
DropAt(seq, i) == SubSeq(seq, 1, i - 1) \o SubSeq(seq, i + 1, Len(seq))

\* list.sort(key=name): the stable sort of a sequence of names.
RECURSIVE SortByName(_)
SortByName(seq) ==
    IF seq = << >> THEN << >>
    ELSE LET first == CHOOSE i \in DOMAIN seq :
                        \A j \in DOMAIN seq :
                            \/ SpellRank(seq[i]) < SpellRank(seq[j])
                            \/ SpellRank(seq[i]) = SpellRank(seq[j]) /\ i <= j
         IN  << seq[first] >> \o SortByName(DropAt(seq, first))

\* S() for a spell class S: spells compare by name, so that the instance is
\* its name.
Spell(name) == name

\* The spells set_attrs resolves for the "spells" or "spells_prepared" attribute.
SpellsAttr(refs) ==
    SortByName([i \in DOMAIN refs |->
                   Spell(ResolveMechanic(refs[i], SpellCatalog, SpellWarning).Mechanic.name)])

AnySpellWarned(refs) ==
    \E i \in DOMAIN refs : ResolveMechanic(refs[i], SpellCatalog, SpellWarning).warned

\* The message of set_attrs for an unknown feature (its backquotes left out).
FeatureWarning == Template("Feature \"", "\" not defined. Please add it to features.py")

\* F(owner=self) for a feature class F: features compare by name, so that the
\* instance is its name.
Feature(name) == name

\* The features set_attrs resolves for the "features" attribute.
RECURSIVE ResolvedFeatureNames(_)
ResolvedFeatureNames(refs) ==
    IF refs = << >> THEN << >>
    ELSE << Feature(ResolveMechanic(Head(refs), FeatureCatalog, FeatureWarning).Mechanic.name) >>
         \o ResolvedFeatureNames(Tail(refs))

AnyFeatureWarned(refs) ==
    \E i \in DOMAIN refs : ResolveMechanic(refs[i], FeatureCatalog, FeatureWarning).warned

\* len() of a classes argument: a list, or a single name.
Length(arg) == IF arg.kind = "str" THEN Len(arg.chars) ELSE Len(arg.items)

\* The description handed to Character(classes, levels, subclasses, **attrs);
\* an attribute the description does not give is None (NoSubclass for subclass,
\* the empty list for features).  grants is what the catalog makes each class
\* entry grant.
Description(classes, levels, subclasses, attrs, grants) ==
    [ classes |-> classes, levels |-> levels, subclasses |-> subclasses,
      attrs |-> attrs, grants |-> grants ]

NoAttrs ==
    [ class_ |-> None, level |-> None, subclass |-> NoSubclass, race |-> None,
      background |-> None, constitution |-> None, hp_max |-> None,
      features |-> << >>, spells |-> None, spells_prepared |-> None ]

FighterName == << "F", "i", "g", "h", "t", "e", "r" >>

\* The state of a Character object.
Character(p, cl, r, b, con, hp, cf, sp, spp, w, e) ==
    [ pc |-> p, class_list |-> cl, _race |-> r, _background |-> b,
      constitution |-> con, hp_max |-> hp, custom_features |-> cf,
      _spells |-> sp, _spells_prepared |-> spp, warned |-> w, error |-> e ]

\* The class attributes a Character object starts from.
ClassDefaults ==
    Character("new", << >>, None, None, DefaultScore, None, << >>, << >>, << >>,
              FALSE, "none")

\* Character.__init__(classes, levels, subclasses, **attrs) on an object in
\* state self: the state it leaves.
Construct(self, d) ==
    LET legacy == Length(d.classes) = 0
        my_classes == IF ~legacy THEN d.classes
                      ELSE IF d.attrs.class_ # None THEN List(<< d.attrs.class_ >>)
                      ELSE List(<< Str(FighterName) >>)
        my_levels == IF ~legacy THEN d.levels
                     ELSE IF d.attrs.class_ # None /\ d.attrs.level # None
                          THEN List(<< d.attrs.level >>)
                     ELSE List(<< IntValue(1) >>)
        my_subclasses == IF ~legacy THEN d.subclasses
                         ELSE IF d.attrs.class_ # None THEN List(<< d.attrs.subclass >>)
                         ELSE List(<< NoSubclass >>)
        added == add_classes(<< >>, my_classes, my_levels, my_subclasses, d.grants)
        r == race_setter(self._race, d.attrs.race)
        b == background_setter(self._background, d.attrs.background)
        \* set_attrs: the attributes left in attrs; "level" was popped with "class"
        set_level == d.attrs.level # None /\ ~(legacy /\ d.attrs.class_ # None)
        leveled == IF set_level
                   THEN level_setter(added.class_list, d.attrs.level.val)
                   ELSE [class_list |-> added.class_list, warned |-> FALSE]
        con == IF d.attrs.constitution # None THEN d.attrs.constitution.val
               ELSE self.constitution
        cf == ResolvedFeatureNames(d.attrs.features)
        sp == IF d.attrs.spells # None THEN SpellsAttr(d.attrs.spells.items)
              ELSE self._spells
        spp == IF d.attrs.spells_prepared # None
               THEN SpellsAttr(d.attrs.spells_prepared.items)
               ELSE self._spells_prepared
        hp0 == IF d.attrs.hp_max # None THEN d.attrs.hp_max ELSE self.hp_max
        hp == set_max_hp(hp0, d.attrs.hp_max, leveled.class_list, con)
        w == \/ r.warned \/ b.warned \/ leveled.warned
             \/ AnyFeatureWarned(d.attrs.features)
             \/ d.attrs.spells # None /\ AnySpellWarned(d.attrs.spells.items)
             \/ d.attrs.spells_prepared # None
                /\ AnySpellWarned(d.attrs.spells_prepared.items)
    IN  IF added.error # "none"
        THEN Character("aborted", added.class_list, self._race, self._background,
                       self.constitution, self.hp_max, << >>, << >>, << >>, FALSE,
                       added.error)
        ELSE Character(IF hp.error = "none" THEN "ready" ELSE "aborted",
                       leveled.class_list, r.value, b.value, con, hp.hp_max, cf,
                       sp, spp, w, hp.error)

(***************************************************************************)
(* Features                                                                *)
(***************************************************************************)
set_of_fighting_styles ==
    { "Fighting Style (Archery)", "Fighting Style (Defense)",
      "Fighting Style (Dueling)", "Fighting Style (Great Weapon Fighting)",
      "Fighting Style (Protection)", "Fighting Style (Two-Weapon Fighting)" }

SelectOne == "Fighting Style (Select One)"

\* The elements of a sequence; features are equal when their names are.
Range(seq) == { seq[i] : i \in DOMAIN seq }

\* fighting_style_defined after the loop over the custom features.
fighting_style_defined(custom) == Range(custom) \cap set_of_fighting_styles # {}

\* The loop of features over class_list from entry i on; fts is the set so far.
RECURSIVE ClassFeatureLoop(_, _, _, _)
ClassFeatureLoop(cl, i, fts, style_defined) ==
    IF i > Len(cl) THEN fts
    ELSE ClassFeatureLoop(cl, i + 1,
                          IF style_defined THEN (fts \cup cl[i].features) \ {SelectOne}
                          ELSE fts \cup cl[i].features,
                          style_defined)

\* The names of the features Character.features holds, before they are sorted.
FeatureSet(custom, cl, r, b) ==
    LET from_classes == ClassFeatureLoop(cl, 1, Range(custom), fighting_style_defined(custom))
        with_race == IF r # None
                     THEN from_classes \cup r.features
                          \cup UNION { FeaturesByLevel(r, lvl) : lvl \in 1 .. level(cl) }
                     ELSE from_classes
    IN  IF Len(cl) = 0 THEN Range(custom)
        ELSE IF b # None THEN with_race \cup b.features
        ELSE with_race

\* The feature names the model uses, in the order of their names.
FeatureOrder ==
    << "Darkvision", "Drow Magic", "Fey Ancestry", "Fighting Style (Archery)",
       "Fighting Style (Defense)", "Fighting Style (Select One)", "Radiant Soul",
       "Second Wind", "Shelter of the Faithful" >>

NameRank(name) ==
    IF \E i \in DOMAIN FeatureOrder : FeatureOrder[i] = name
    THEN CHOOSE i \in DOMAIN FeatureOrder : FeatureOrder[i] = name
    ELSE 0

\* A list in whatever order the set hands its members out (here: the last first).
RECURSIVE SortedByName_Unsorted(_)
SortedByName_Unsorted(names) ==
    IF names = {} THEN << >>
    ELSE LET first == CHOOSE n \in names : \A m \in names : NameRank(n) >= NameRank(m)
         IN  << first >> \o SortedByName_Unsorted(names \ {first})

\* sorted(names, key=name) of a set of names.
RECURSIVE SortedByName(_)
SortedByName(names) ==
    IF names = {} THEN << >>
    ELSE LET first == CHOOSE n \in names : \A m \in names : NameRank(n) <= NameRank(m)
         IN  << first >> \o SortedByName(names \ {first})

\* Character.features
features(custom, cl, r, b) == SortedByName(FeatureSet(custom, cl, r, b))

(***************************************************************************)
(* Spells                                                                  *)
(***************************************************************************)
\* Feature.spells_known and Feature.spells_prepared of a feature.
FeatureSpellsKnown(f) == IF f = "Drow Magic" THEN {"Light"} ELSE {}

FeatureSpellsPrepared(f) == IF f = "Drow Magic" THEN {"Light"} ELSE {}

\* CharClass.spells_known and CharClass.spells_prepared of a class entry.
ClassSpellsKnown(c) ==
    IF c.name = "Wizard" THEN {"Shield"}
    ELSE IF c.name = "Cleric" THEN {"Light"}
    ELSE {}

ClassSpellsPrepared(c) == IF c.name = "Cleric" THEN {"Light"} ELSE {}

\* Race.spells_known and Race.spells_prepared.
RaceSpellsKnown(r) == IF r.name = "Aasimar" THEN {"Light"} ELSE {}

RaceSpellsPrepared(r) == IF r.name = "Aasimar" THEN {"Light"} ELSE {}

\* sorted(tuple(spells), key=name) of a set of spells.
SortedSpells(names) ==
    SortByName([i \in 1 .. Cardinality(names) |->
                   CHOOSE n \in names :
                       Cardinality({ m \in names : SpellRank(m) < SpellRank(n) }) = i - 1])

\* The set Character.spells builds, before it is sorted.
SpellSet(known, prepared, fts, cl, r) ==
    Range(known) \cup Range(prepared)
    \cup UNION { FeatureSpellsKnown(fts[i]) \cup FeatureSpellsPrepared(fts[i]) : i \in DOMAIN fts }
    \cup UNION { ClassSpellsKnown(spellcasting_classes(cl)[i])
                 \cup ClassSpellsPrepared(spellcasting_classes(cl)[i]) :
                   i \in DOMAIN spellcasting_classes(cl) }
    \cup (IF r # None THEN RaceSpellsKnown(r) \cup RaceSpellsPrepared(r) ELSE {})

\* A spells that returns its sources one after the other, without a set.
spells_NoSet(known, prepared, fts, cl, r) ==
    SortByName(known \o prepared \o SortedSpells(SpellSet(<< >>, << >>, fts, cl, r)))

\* A spells that leaves the declared prepared spells out.
spells_KnownOnly(known, prepared, fts, cl, r) ==
    SortedSpells(SpellSet(known, << >>, fts, cl, r))

\* Character.spells; fts is Character.features.
spells(known, prepared, fts, cl, r) == SortedSpells(SpellSet(known, prepared, fts, cl, r))

\* Character.spells_prepared; fts is Character.features.
spells_prepared(prepared, fts, cl, r) ==
    SortedSpells(
        Range(prepared)
        \cup UNION { FeatureSpellsPrepared(fts[i]) : i \in DOMAIN fts }
        \cup UNION { ClassSpellsPrepared(spellcasting_classes(cl)[i]) :
                       i \in DOMAIN spellcasting_classes(cl) }
        \cup (IF r # None THEN RaceSpellsPrepared(r) ELSE {}))

(***************************************************************************)
(* The state machine                                                       *)
(***************************************************************************)
\* The Character object as the variables hold it.
Self ==
    Character(pc, class_list, _race, _background, constitution, hp_max,
              custom_features, _spells, _spells_prepared, warned, error)

\* The variables take the state c.
Become(c) ==
    /\ pc' = c.pc
    /\ class_list' = c.class_list
    /\ _race' = c._race
    /\ _background' = c._background
    /\ constitution' = c.constitution
    /\ hp_max' = c.hp_max
    /\ custom_features' = c.custom_features
    /\ _spells' = c._spells
    /\ _spells_prepared' = c._spells_prepared
    /\ warned' = c.warned
    /\ error' = c.error

NoCall == [op |-> "none"]

\* An object before __init__ runs: the class attributes.
Init ==
    /\ pc = "new"
    /\ class_list = << >>
    /\ _race = None
    /\ _background = None
    /\ constitution = DefaultScore
    /\ hp_max = None
    /\ custom_features = << >>
    /\ _spells = << >>
    /\ _spells_prepared = << >>
    /\ warned = FALSE
    /\ error = "none"
    /\ ret = NoCall

\* Character(**d) for a description d of the set descriptions
NewCharacter(descriptions) ==
    /\ pc = "new"
    /\ \E d \in descriptions :
          /\ Become(Construct(Self, d))
          /\ ret' = [op |-> "__init__", arg |-> d]

\* character.spell_slots(spell_level).  The call changes nothing of the
\* character, so a call that follows another one returns what a first call
\* returns: only first calls are explored.
SpellSlots(spell_level) ==
    /\ pc = "ready"
    /\ ret.op # "spell_slots"
    /\ ret' = [ op |-> "spell_slots", arg |-> spell_level,
                raised |-> IF spell_slots_raises(class_list, spell_level)
                           THEN "KeyError" ELSE "none",
                val |-> spell_slots(class_list, spell_level) ]
    /\ UNCHANGED << pc, class_list, _race, _background, constitution, hp_max,
                    custom_features, _spells, _spells_prepared, warned, error >>

\* character.proficiency_bonus
ProficiencyBonus ==
    /\ pc = "ready"
    /\ ret.op # "proficiency_bonus"
    /\ ret' = [op |-> "proficiency_bonus", val |-> proficiency_bonus(class_list)]
    /\ UNCHANGED << pc, class_list, _race, _background, constitution, hp_max,
                    custom_features, _spells, _spells_prepared, warned, error >>

\* character.features
Features ==
    /\ pc = "ready"
    /\ ret.op # "features"
    /\ ret' = [ op |-> "features",
                val |-> features(custom_features, class_list, _race, _background) ]
    /\ UNCHANGED << pc, class_list, _race, _background, constitution, hp_max,
                    custom_features, _spells, _spells_prepared, warned, error >>

\* character.add_class(cls, level, subclass)
AddClass(cls, new_level, subclass) ==
    /\ pc = "ready"
    /\ LET added == add_class(class_list, cls, new_level, subclass, {})
       IN  /\ class_list' = added.class_list
           /\ error' = added.error
           /\ ret' = [op |-> "add_class", arg |-> cls, before |-> class_list]
    /\ warned' = FALSE
    /\ UNCHANGED << pc, _race, _background, constitution, hp_max, custom_features,
                    _spells, _spells_prepared >>

\* character.add_classes(classes_list, levels, subclasses)
AddClasses(classes_list, levels, subclasses) ==
    /\ pc = "ready"
    /\ LET added == add_classes(class_list, classes_list, levels, subclasses, << >>)
       IN  /\ class_list' = added.class_list
           /\ error' = added.error
           /\ ret' = [ op |-> "add_classes", classes |-> classes_list,
                       levels |-> levels, subclasses |-> subclasses,
                       before |-> class_list ]
    /\ warned' = FALSE
    /\ UNCHANGED << pc, _race, _background, constitution, hp_max, custom_features,
                    _spells, _spells_prepared >>

\* A level assignment that derives hp_max again from the new levels.
SetLevel_Rederived(new_level) ==
    /\ pc = "ready"
    /\ class_list' = level_setter(class_list, new_level).class_list
    /\ warned' = level_setter(class_list, new_level).warned
    /\ error' = "none"
    /\ ret' = [op |-> "level", arg |-> new_level, before |-> class_list]
    /\ hp_max' = set_max_hp(hp_max, None, class_list', constitution).hp_max
    /\ UNCHANGED << pc, _race, _background, constitution, custom_features,
                    _spells, _spells_prepared >>

\* character.level = new_level
SetLevel(new_level) ==
    /\ pc = "ready"
    /\ class_list' = level_setter(class_list, new_level).class_list
    /\ warned' = level_setter(class_list, new_level).warned
    /\ error' = "none"
    /\ ret' = [op |-> "level", arg |-> new_level, before |-> class_list]
    /\ UNCHANGED << pc, _race, _background, constitution, hp_max, custom_features,
                    _spells, _spells_prepared >>

\* character.race = newrace
SetRace(newrace) ==
    /\ pc = "ready"
    /\ _race' = race_setter(_race, newrace).value
    /\ warned' = race_setter(_race, newrace).warned
    /\ error' = "none"
    /\ ret' = [op |-> "race", arg |-> newrace]
    /\ UNCHANGED << pc, class_list, _background, constitution, hp_max,
                    custom_features, _spells, _spells_prepared >>

\* character.background = bg
SetBackground(bg) ==
    /\ pc = "ready"
    /\ _background' = background_setter(_background, bg).value
    /\ warned' = background_setter(_background, bg).warned
    /\ error' = "none"
    /\ ret' = [op |-> "background", arg |-> bg]
    /\ UNCHANGED << pc, class_list, _race, constitution, hp_max, custom_features,
                    _spells, _spells_prepared >>

\* _resolve_mechanic(mechanic, module, SuperClass, warning_message), a function
\* of the module: it reads and changes nothing of a character, so that a call
\* that follows another one returns what a first call returns: only first
\* calls are explored.
Resolve(mechanic, catalog, warning_message) ==
    /\ ret = NoCall
    /\ ret' = [ op |-> "_resolve_mechanic", arg |-> mechanic,
                warning_message |-> warning_message, catalog |-> catalog,
                val |-> ResolveMechanic(mechanic, catalog, warning_message).Mechanic ]
    /\ warned' = ResolveMechanic(mechanic, catalog, warning_message).warned
    /\ error' = "none"
    /\ UNCHANGED << pc, class_list, _race, _background, constitution, hp_max,
                    custom_features, _spells, _spells_prepared >>

\* character.set_attrs(spells=refs) or character.set_attrs(spells_prepared=refs)
SetSpells(attr, refs) ==
    /\ pc = "ready"
    /\ _spells' = IF attr = "spells" THEN SpellsAttr(refs) ELSE _spells
    /\ _spells_prepared' = IF attr = "spells_prepared" THEN SpellsAttr(refs)
                           ELSE _spells_prepared
    /\ warned' = AnySpellWarned(refs)
    /\ error' = "none"
    /\ ret' = [op |-> "set_attrs", attr |-> attr]
    /\ UNCHANGED << pc, class_list, _race, _background, constitution, hp_max,
                    custom_features >>

\* character.spells
Spells ==
    /\ pc = "ready"
    /\ ret.op # "spells"
    /\ ret' = [ op |-> "spells",
                val |-> spells(_spells, _spells_prepared,
                               features(custom_features, class_list, _race, _background),
                               class_list, _race) ]
    /\ UNCHANGED << pc, class_list, _race, _background, constitution, hp_max,
                    custom_features, _spells, _spells_prepared, warned, error >>

\* character.spells_prepared
SpellsPrepared ==
    /\ pc = "ready"
    /\ ret.op # "spells_prepared"
    /\ ret' = [ op |-> "spells_prepared",
                val |-> spells_prepared(_spells_prepared,
                               features(custom_features, class_list, _race, _background),
                               class_list, _race) ]
    /\ UNCHANGED << pc, class_list, _race, _background, constitution, hp_max,
                    custom_features, _spells, _spells_prepared, warned, error >>

(***************************************************************************)
(* Characters whose spell slots are read                                   *)
(***************************************************************************)
\* The class and subclass of one entry of a description.
EntryKinds ==
    UNION { { [name |-> n, subclass |-> s] : s \in SubclassesOf(n) } : n \in ClassNames }

\* The class, level and subclass of one entry of a description.
EntryChoices(max_level) ==
    { [name |-> k.name, level |-> l, subclass |-> k.subclass] :
        k \in EntryKinds, l \in 1 .. max_level }

\* The description that lists these entries as catalog classes.
DescriptionOf(entries, attrs) ==
    Description(List([i \in DOMAIN entries |-> Type(entries[i].name)]),
                List([i \in DOMAIN entries |-> IntValue(entries[i].level)]),
                List([i \in DOMAIN entries |-> entries[i].subclass]),
                attrs, << >>)

ClassOrder ==
    << "Artificer", "Barbarian", "Bard", "Cleric", "Druid", "Fighter", "Monk",
       "Paladin", "Ranger", "Rogue", "Sorceror", "Warlock", "Wizard" >>

\* The members of a set of indices, in increasing order.
RECURSIVE Ascending(_)
Ascending(S) ==
    IF S = {} THEN << >>
    ELSE LET m == CHOOSE x \in S : \A y \in S : x <= y
         IN  << m >> \o Ascending(S \ {m})

\* Characters that took WideLevel levels in each of up to MaxWide different classes.
WideLists ==
    { [i \in DOMAIN Ascending(S) |->
          [name |-> ClassOrder[Ascending(S)[i]], level |-> WideLevel,
           subclass |-> NoSubclass]] :
      S \in { T \in SUBSET DOMAIN ClassOrder : Cardinality(T) \in 1 .. MaxWide } }

\* One class entry, or two, each of a level up to MaxLevel.
ShortLists ==
    { << a >> : a \in EntryChoices(MaxLevel) }
    \cup { << a, b >> : a \in EntryChoices(MaxLevel), b \in EntryChoices(MaxLevel) }

\* Three class entries, each of a level up to MaxTripleLevel.
TripleLists ==
    { << a, b, c >> : a \in EntryChoices(MaxTripleLevel), b \in EntryChoices(MaxTripleLevel),
                      c \in EntryChoices(MaxTripleLevel) }

Descriptions(lists) == { DescriptionOf(entries, NoAttrs) : entries \in lists }

NextSlots ==
    \/ NewCharacter(Descriptions(ShortLists))
    \/ NewCharacter(Descriptions(TripleLists))
    \/ NewCharacter(Descriptions(WideLists))
    \/ \E spell_level \in SpellLevels : SpellSlots(spell_level)
    \/ ProficiencyBonus

SpecSlots == Init /\ [][NextSlots]_vars

(***************************************************************************)
(* Characters whose hit points are computed                                *)
(***************************************************************************)
\* The constitution scores descriptions give: modifiers -4, -1 and +2.
ConScores == {3, 8, 15}

WithConstitution(attrs, score) == [attrs EXCEPT !.constitution = IntValue(score)]

\* Descriptions of these class lists that give a constitution, or none.
HpDescriptions(lists) ==
    { DescriptionOf(entries, attrs) :
        entries \in lists,
        attrs \in {NoAttrs} \cup { WithConstitution(NoAttrs, score) : score \in ConScores } }

\* The hp_max a description gives: integers, zero and a negative one among
\* them, the string "12" and the empty string.
ExplicitHpValues ==
    { IntValue(n) : n \in -1 .. MaxExplicitHp } \cup { Str(<< "1", "2" >>), Str(<< >>) }

\* Descriptions of one class that give an hp_max.
ExplicitHpDescriptions ==
    { DescriptionOf(<< e >>, [NoAttrs EXCEPT !.hp_max = hp]) :
        e \in EntryChoices(MaxTripleLevel), hp \in ExplicitHpValues }

NextHitPoints ==
    \/ NewCharacter(HpDescriptions(ShortLists))
    \/ NewCharacter(HpDescriptions(TripleLists))
    \/ NewCharacter(ExplicitHpDescriptions)

SpecHitPoints == Init /\ [][NextHitPoints]_vars

(***************************************************************************)
(* Characters whose features are read                                      *)
(***************************************************************************)
\* The features a description declares: catalog types, a catalog name
\* ("darkvision") and a name the catalog does not have ("second wind").
FeatureRefs ==
    { Type("Fighting Style (Archery)"), Type(SelectOne),
      Str(<< "d", "a", "r", "k", "v", "i", "s", "i", "o", "n" >>),
      Str(<< "s", "e", "c", "o", "n", "d", " ", "w", "i", "n", "d" >>) }

FeatureLists == UNION { [1 .. n -> FeatureRefs] : n \in 0 .. MaxCustomFeatures }

\* What the catalog may make a class entry grant.
ClassGrants ==
    { {}, {"Fighting Style (Archery)"}, {SelectOne},
      {"Fighting Style (Defense)", SelectOne, "Second Wind"} }

ElfName == << "e", "l", "f" >>

AcolyteName == << "a", "c", "o", "l", "y", "t", "e" >>

\* A race and a background of the catalog, none, and objects the user built.
FeatureRaces ==
    { None, Str(ElfName), Str(<< "a", "a", "s", "i", "m", "a", "r" >>),
      Instance(Race("Custom", {SelectOne})) }

FeatureBackgrounds ==
    { None, Str(AcolyteName), Instance(Background("Custom", {SelectOne})) }

FighterAndPaladin ==
    << [name |-> "Fighter", level |-> 1, subclass |-> NoSubclass],
       [name |-> "Paladin", level |-> 2, subclass |-> NoSubclass] >>

FeatureDescriptions ==
    { [DescriptionOf(SubSeq(FighterAndPaladin, 1, Len(grants)),
                     [NoAttrs EXCEPT !.features = declared, !.race = r, !.background = b])
         EXCEPT !.grants = grants] :
        declared \in FeatureLists,
        grants \in { << g >> : g \in ClassGrants }
                   \cup { << g, h >> : g \in ClassGrants, h \in ClassGrants },
        r \in FeatureRaces, b \in FeatureBackgrounds }

NextFeatures ==
    \/ NewCharacter(FeatureDescriptions)
    \/ Features

SpecFeatures == Init /\ [][NextFeatures]_vars

(***************************************************************************)
(* Names that are resolved                                                 *)
(***************************************************************************)
NameAlphabet == {"a", "B", "_", " "}

\* Every name of up to MaxNameLen characters, and two names users type.
RawNames ==
    UNION { [1 .. n -> NameAlphabet] : n \in 0 .. MaxNameLen }
    \cup { << "m", "a", "g", "e", "_", "h", "a", "n", "d" >>,
           << "h", "o", "c", "u", "s", " ", "p", "O", "C", "U", "S" >> }

NextResolve ==
    \E chars \in RawNames, warning_message \in {None, SpellWarning} :
        Resolve(Str(chars), SpellCatalog, warning_message)

SpecResolve == Init /\ [][NextResolve]_vars

(***************************************************************************)
(* A character from its construction on                                    *)
(***************************************************************************)
WarLockName == << "w", "a", "r", " ", "l", "o", "c", "k" >>

\* The classes a description names: a catalog type, names the catalog has
\* ("fighter", " paladin ") and names it does not have ("war lock", "bogus").
ClassRefs ==
    { Type("Wizard"), Str(<< "f", "i", "g", "h", "t", "e", "r" >>),
      Str(<< " ", "p", "a", "l", "a", "d", "i", "n", " " >>),
      Str(WarLockName), Str(<< "b", "o", "g", "u", "s" >>) }

\* The levels a description gives: integers, and the string "2".
LevelRefs == { IntValue(l) : l \in 1 .. MaxLifeLevel } \cup { Str(<< "2" >>) }

\* Descriptions of up to MaxClasses classes, and the single-class shape of old
\* descriptions (the keys "class" and "level").
ClassDescriptions ==
    { Description(List(cs), List(ls), List([i \in DOMAIN cs |-> NoSubclass]), NoAttrs, << >>) :
        cs \in UNION { [1 .. n -> ClassRefs] : n \in 0 .. MaxClasses },
        ls \in UNION { [1 .. n -> LevelRefs] : n \in 0 .. MaxClasses } }
    \cup { Description(List(<< >>), List(<< >>), List(<< >>),
                       [NoAttrs EXCEPT !.class_ = c, !.level = l], << >>) :
             c \in ClassRefs, l \in LevelRefs \cup {None} }

Next ==
    \/ NewCharacter(ClassDescriptions)
    \/ /\ Len(class_list) < MaxClasses
       /\ \E cls \in ClassRefs, new_level \in LevelRefs : AddClass(cls, new_level, NoSubclass)
    \/ \E new_level \in 1 .. MaxLifeLevel : SetLevel(new_level)

Spec == Init /\ [][Next]_vars

(***************************************************************************)
(* A character and its class list                                          *)
(***************************************************************************)
EldritchKnight == [kind |-> "str", name |-> "Eldritch Knight"]

\* The classes given at once: a single name, no class, one class, two classes.
ClassArgs ==
    { Str(<< "f", "i", "g", "h", "t", "e", "r" >>), List(<< >>),
      List(<< Type("Wizard") >>),
      List(<< Type("Wizard"), Str(<< "f", "i", "g", "h", "t", "e", "r" >>) >>) }

\* The levels given at once: a single integer, the single string "2", no
\* level, one level, two levels.
LevelArgs ==
    { IntValue(2), Str(<< "2" >>), List(<< >>), List(<< IntValue(1) >>),
      List(<< IntValue(1), IntValue(2) >>) }

\* The subclasses given at once: a single name, none, one, two.
SubclassArgs ==
    { EldritchKnight, List(<< >>), List(<< NoSubclass >>),
      List(<< NoSubclass, "Eldritch Knight" >>) }

\* Descriptions of these classes, levels and subclasses, with and without a
\* constitution and a level attribute.
ListDescriptions ==
    { Description(cs, ls, ss, [NoAttrs EXCEPT !.constitution = con, !.level = l], << >>) :
        cs \in ClassArgs, ls \in LevelArgs, ss \in SubclassArgs,
        con \in {None, IntValue(15)}, l \in {None, IntValue(3)} }

NextClasses ==
    \/ NewCharacter(ListDescriptions)
    \/ /\ Len(class_list) < MaxClasses
       /\ \E cs \in ClassArgs, ls \in LevelArgs, ss \in SubclassArgs : AddClasses(cs, ls, ss)
    \/ /\ Len(class_list) < MaxClasses
       /\ AddClass(Type("Wizard"), IntValue(1), NoSubclass)
    \/ \E new_level \in 1 .. MaxLifeLevel : SetLevel(new_level)

SpecClasses == Init /\ [][NextClasses]_vars

(***************************************************************************)
(* A character, its race and its background                                *)
(***************************************************************************)
OrcName == << "o", "r", "c" >>

HermitName == << "h", "e", "r", "m", "i", "t" >>

\* The race a description gives: none, a name of the catalog, a name it does
\* not have, a type of the catalog, an object.
RaceRefs ==
    { None, Str(ElfName), Str(OrcName), Type("Human"), Instance(Race("Custom", {})) }

BackgroundRefs ==
    { None, Str(AcolyteName), Str(HermitName), Type("Soldier"),
      Instance(Background("Custom", {})) }

OriginDescriptions ==
    { Description(List(<< >>), List(<< >>), List(<< >>),
                  [NoAttrs EXCEPT !.class_ = c, !.race = r, !.background = b], << >>) :
        c \in {None, Type("Wizard")}, r \in RaceRefs, b \in BackgroundRefs }

NextOrigin ==
    \/ NewCharacter(OriginDescriptions)
    \/ \E newrace \in RaceRefs : SetRace(newrace)
    \/ \E bg \in BackgroundRefs : SetBackground(bg)

SpecOrigin == Init /\ [][NextOrigin]_vars

(***************************************************************************)
(* Characters whose spells are read                                        *)
(***************************************************************************)
HocusPocus == << "h", "o", "c", "u", "s", " ", "p", "o", "c", "u", "s" >>

\* The spells declared: a catalog type, a catalog name and a name the catalog
\* does not have.
SpellRefs == { Type("Shield"), Str(<< "l", "i", "g", "h", "t" >>), Str(HocusPocus) }

SpellLists == UNION { [1 .. n -> SpellRefs] : n \in 0 .. MaxSpells }

\* The characters that declare them: a Wizard, a Fighter with Drow Magic, an
\* Aasimar Cleric / Fighter, and a Fighter that nothing grants a spell.
SpellCasters ==
    { DescriptionOf(<< [name |-> "Wizard", level |-> 1, subclass |-> NoSubclass] >>, NoAttrs),
      DescriptionOf(<< [name |-> "Fighter", level |-> 1, subclass |-> NoSubclass] >>,
                    [NoAttrs EXCEPT !.features = << Type("Drow Magic") >>]),
      DescriptionOf(<< [name |-> "Cleric", level |-> 1, subclass |-> NoSubclass],
                       [name |-> "Fighter", level |-> 1, subclass |-> NoSubclass] >>,
                    [NoAttrs EXCEPT !.race = Str(<< "a", "a", "s", "i", "m", "a", "r" >>)]),
      DescriptionOf(<< [name |-> "Fighter", level |-> 1, subclass |-> NoSubclass] >>, NoAttrs) }

SpellDescriptions ==
    { [d EXCEPT !.attrs.spells = known, !.attrs.spells_prepared = prepared] :
        d \in SpellCasters,
        known \in {None} \cup { List(l) : l \in SpellLists },
        prepared \in {None} \cup { List(l) : l \in SpellLists } }

NextSpells ==
    \/ NewCharacter(SpellDescriptions)
    \/ \E attr \in {"spells", "spells_prepared"}, refs \in SpellLists : SetSpells(attr, refs)
    \/ Spells
    \/ SpellsPrepared

SpecSpells == Init /\ [][NextSpells]_vars

(***************************************************************************)
(* Spell slots: the properties                                             *)
(***************************************************************************)
\* The positions of class_list that hold a spellcasting entry other than a Warlock.
OtherCasters == { i \in DOMAIN class_list :
                    IsSpellcasterEntry(class_list[i]) /\ class_list[i].name # "Warlock" }

\* The positions of class_list that hold a Warlock.
Warlocks == { i \in DOMAIN class_list : class_list[i].name = "Warlock" }

\* The Pact Magic counts the Warlock entries' own tables give for a spell level.
PactCounts(spell_level) ==
    IF Warlocks = {} THEN {0}
    ELSE { ClassSpellSlots(class_list[i], spell_level) : i \in Warlocks }

\* The sum of the function f over a finite set S of positions.
RECURSIVE SumOver(_, _)
SumOver(S, f) ==
    IF S = {} THEN 0
    ELSE LET i == CHOOSE x \in S : TRUE IN f[i] + SumOver(S \ {i}, f)

FullCasterFamilies == {"Bard", "Cleric", "Druid", "Sorceror", "Wizard"}

\* The share of one entry in the effective caster level, by family.
FamilyShare(i) ==
    LET c == class_list[i]
    IN  IF c.name \in FullCasterFamilies THEN c.level
        ELSE IF c.name \in {"Paladin", "Ranger"} THEN (c.level - (c.level % 2)) \div 2
        ELSE IF c.name \in {"Fighter", "Rogue"} THEN (c.level - (c.level % 3)) \div 3
        ELSE IF c.name = "Artificer" THEN (c.level + (c.level % 2)) \div 2
        ELSE 0

EffectiveCasterLevel == SumOver(OtherCasters, [i \in OtherCasters |-> FamilyShare(i)])

SlotsRead == pc = "ready" /\ ret.op = "spell_slots"

\* C2 (as amended): with two or more spellcasting entries other than Warlock and
\* a spell level of 1..9, the effective caster level is the sum of the full
\* level of each Bard, Cleric, Druid, Sorceror and Wizard entry (five families),
\* floor(level/2) of each Paladin and Ranger entry, floor(level/3) of each
\* Fighter and Rogue entry and ceil(level/2) of each Artificer entry; the result
\* is the Warlock count alone when that level is 0, and the pooled table's
\* entry plus the Warlock count when it is one of the table's rows.
C2_EffectiveCasterLevel ==
    (SlotsRead /\ Cardinality(OtherCasters) >= 2 /\ ret.arg \in 1 .. 9) =>
        /\ EffectiveCasterLevel = 0 =>
              /\ ret.raised = "none"
              /\ ret.val \in PactCounts(ret.arg)
        /\ EffectiveCasterLevel \in DOMAIN multiclass_spellslots_by_level =>
              /\ ret.raised = "none"
              /\ \E pact \in PactCounts(ret.arg) :
                    ret.val = multiclass_spellslots_by_level[EffectiveCasterLevel][ret.arg + 1]
                              + pact

\* C2 witness: a level-6 Wizard with a level-6 Paladin reads 4 first-level slots.
C2_Witness ==
    /\ SlotsRead
    /\ Len(class_list) = 2
    /\ class_list[1].name = "Wizard" /\ class_list[1].level = 6
    /\ class_list[2].name = "Paladin" /\ class_list[2].level = 6
    /\ EffectiveCasterLevel = 9
    /\ ret.arg = 1
    /\ ret.val = 4

\* The class list without its entry at position j.
WithoutEntry(cl, j) == SubSeq(cl, 1, j - 1) \o SubSeq(cl, j + 1, Len(cl))

\* The families an entry of which adds its full level to the effective level:
\* taking the entry away lowers the level by the entry's own level.
FullLevelFamilies ==
    { class_list[i].name : i \in
        { j \in OtherCasters :
            /\ class_list[j].level >= 2
            /\ EffLevel(class_list) - EffLevel(WithoutEntry(class_list, j))
               = class_list[j].level } }

\* C2 (as stated): the full casters, whose entries count with their full level,
\* are four named families.
C2_FourFullCasterFamilies ==
    (SlotsRead /\ Cardinality(OtherCasters) >= 2 /\ ret.arg \in 1 .. 9) =>
        Cardinality(FullLevelFamilies) <= 4

\* C8: with exactly one spellcasting entry other than Warlock, every spell level
\* 0..9 reads that entry's own count plus the Warlock count (zero without a
\* Warlock entry), and the pooled table is not consulted.
C8_SingleCaster ==
    (SlotsRead /\ Cardinality(OtherCasters) = 1) =>
        /\ ret.raised = "none"
        /\ \E i \in OtherCasters : \E pact \in PactCounts(ret.arg) :
              ret.val = ClassSpellSlots(class_list[i], ret.arg) + pact

\* C8 witness: a level-5 Wizard with a level-3 Warlock reads its own three
\* second-level slots and the Warlock's two.
C8_Witness ==
    /\ SlotsRead
    /\ Cardinality(OtherCasters) = 1
    /\ \E i \in OtherCasters : class_list[i].name = "Wizard" /\ class_list[i].level = 5
    /\ \E i \in Warlocks : class_list[i].level = 3
    /\ ret.arg = 2
    /\ ret.val = 5

\* C9: without a spellcasting entry other than Warlock the result is the
\* Warlock entries' own count: 0 without a Warlock entry, and the Pact Magic
\* count of the Warlock of a pure Warlock.
C9_WarlockOnly ==
    (SlotsRead /\ OtherCasters = {}) =>
        /\ ret.raised = "none"
        /\ ret.val \in PactCounts(ret.arg)
        /\ Warlocks = {} => ret.val = 0
        /\ (Len(class_list) = 1 /\ Warlocks = {1}) =>
              ret.val = ClassSpellSlots(class_list[1], ret.arg)

\* C9 witness: a pure level-3 Warlock reads its two Pact Magic slots, which are
\* of the second spell level.
C9_Witness ==
    /\ SlotsRead
    /\ Len(class_list) = 1
    /\ class_list[1].name = "Warlock" /\ class_list[1].level = 3
    /\ ret.arg = 2
    /\ ret.val = 2

CantripsOf(i) == ClassSpellSlots(class_list[i], 0)

\* C10: with two or more spellcasting entries other than Warlock, the cantrips
\* are the sum of the own cantrips of every spellcasting entry, Warlocks included.
C10_CantripsSummed ==
    (SlotsRead /\ Cardinality(OtherCasters) >= 2 /\ ret.arg = 0) =>
        /\ ret.raised = "none"
        /\ ret.val = SumOver(OtherCasters \cup Warlocks,
                             [i \in OtherCasters \cup Warlocks |-> CantripsOf(i)])

\* C10 witness: a Bard, a Warlock and a Wizard of level 2 each know 2 + 2 + 3 cantrips.
C10_Witness ==
    /\ SlotsRead
    /\ Cardinality(OtherCasters) = 2
    /\ Warlocks # {}
    /\ ret.arg = 0
    /\ ret.val = 7


(***************************************************************************)
(* Proficiency bonus: the property                                         *)
(***************************************************************************)
\* The sum of the levels of all class entries.
TotalLevel == SumOver(DOMAIN class_list, [i \in DOMAIN class_list |-> class_list[i].level])

StepOfTotalLevel ==
    CASE TotalLevel \in 1 .. 4 -> 2
      [] TotalLevel \in 5 .. 8 -> 3
      [] TotalLevel \in 9 .. 12 -> 4
      [] TotalLevel \in 13 .. 16 -> 5
      [] TotalLevel \in 17 .. 20 -> 6

\* C7: for every combination of class entries whose levels sum to a total in
\* 1..20, proficiency_bonus is 2 for totals 1-4, 3 for 5-8, 4 for 9-12, 5 for
\* 13-16 and 6 for 17-20.
C7_ProficiencyStep ==
    (pc = "ready" /\ ret.op = "proficiency_bonus" /\ TotalLevel \in 1 .. 20)
        => ret.val = StepOfTotalLevel

\* Three entries of total level 5, the first total of the second step.
C7_Witness ==
    /\ pc = "ready"
    /\ ret.op = "proficiency_bonus"
    /\ Len(class_list) = 3
    /\ TotalLevel = 5
    /\ ret.val = 3

(***************************************************************************)
(* Hit points: the property                                                *)
(***************************************************************************)
\* floor((score - 10) / 2) of the character's constitution.
ConstitutionModifier == (constitution - 10) \div 2

\* floor(hit_dice_faces / 2) + 1 + constitution modifier, for entry i.
HitPointsPerLevel(i) ==
    HitDiceFaces(class_list[i].name) \div 2 + 1 + ConstitutionModifier

\* level - 1 for the primary (first) entry, level for every other entry.
LevelsBeyondFirst(i) == IF i = 1 THEN class_list[i].level - 1 ELSE class_list[i].level

ExpectedHitPoints ==
    HitDiceFaces(class_list[1].name) + ConstitutionModifier
    + SumOver(DOMAIN class_list,
              [i \in DOMAIN class_list |-> HitPointsPerLevel(i) * LevelsBeyondFirst(i)])

\* C1: a character constructed without an explicit hp_max, with one or more
\* class entries of level >= 1, has hp_max = primary hit_dice_faces + con_mod
\* plus, over every entry, (floor(hit_dice_faces/2) + 1 + con_mod) times its
\* counted levels (level - 1 for the first entry, level for the others); for a
\* single class that is faces + con_mod + (level-1) * (floor(faces/2)+1+con_mod).
C1_HitPointsComputed ==
    ( /\ pc = "ready"
      /\ ret.op = "__init__"
      /\ ret.arg.attrs.hp_max = None
      /\ Len(class_list) >= 1
      /\ \A i \in DOMAIN class_list : class_list[i].level >= 1 )
        => /\ hp_max = IntValue(ExpectedHitPoints)
           /\ Len(class_list) = 1
                => hp_max.val = HitDiceFaces(class_list[1].name) + ConstitutionModifier
                                + (class_list[1].level - 1) * HitPointsPerLevel(1)

\* Wizard 3 / Fighter 2 with constitution 8: 6 - 1 + 2 * 3 + 2 * 5 = 21.
C1_Witness ==
    /\ pc = "ready"
    /\ ret.op = "__init__"
    /\ ret.arg.attrs.hp_max = None
    /\ Len(class_list) = 2
    /\ class_list[1].name = "Wizard" /\ class_list[1].level = 3
    /\ class_list[2].name = "Fighter" /\ class_list[2].level = 2
    /\ constitution = 8
    /\ hp_max = IntValue(21)

(***************************************************************************)
(* Features: the properties                                                *)
(***************************************************************************)
IsFightingStyle(name) ==
    name \in { "Fighting Style (Archery)", "Fighting Style (Defense)",
               "Fighting Style (Dueling)", "Fighting Style (Great Weapon Fighting)",
               "Fighting Style (Protection)", "Fighting Style (Two-Weapon Fighting)" }

\* The names the custom features, the class entries, the race and the
\* background of the character grant.
CustomNames == { custom_features[i] : i \in DOMAIN custom_features }

ClassEntryNames == UNION { class_list[i].features : i \in DOMAIN class_list }

OriginNames ==
    (IF _race = None THEN {} ELSE _race.features)
    \cup (IF _background = None THEN {} ELSE _background.features)

FeaturesRead == pc = "ready" /\ ret.op = "features"

Returned == { ret.val[i] : i \in DOMAIN ret.val }

\* C3: whenever a feature of the aggregated set (custom features, class
\* entries, race, background) is named one of the six canonical fighting
\* styles, the list Character.features returns holds no feature named
\* "Fighting Style (Select One)".
C3_AnyStyleRemovesPlaceholder ==
    ( /\ FeaturesRead
      /\ \E n \in CustomNames \cup ClassEntryNames \cup OriginNames : IsFightingStyle(n) )
        => "Fighting Style (Select One)" \notin Returned

(***************************************************************************)
(* Race and background: the property                                       *)
(***************************************************************************)
\* C4: after the construction of any character, whatever race and background
\* the description gives or leaves out, race holds a Race instance and
\* background holds a Background instance; neither is null.
C4_RaceAndBackgroundSet ==
    (pc = "ready" /\ ret.op = "__init__")
        => /\ _race # None /\ _race.kind = "Race"
           /\ _background # None /\ _background.kind = "Background"

(***************************************************************************)
(* _resolve_mechanic: the properties                                       *)
(***************************************************************************)
\* The call resolved a name the catalog has no entry for.
UnknownResolved ==
    /\ ret.op = "_resolve_mechanic"
    /\ ret.arg.kind = "str"
    /\ FindAttr(ret.catalog, ret.arg.chars) = None

\* The raw reference, title-cased and with blanks for its underscores: a
\* letter is upper case when it starts a run of letters, lower case otherwise.
Rendering(raw) ==
    Join([i \in 1 .. Len(raw) |->
            IF raw[i] = "_" THEN " "
            ELSE IF ~IsLetter(raw[i]) THEN raw[i]
            ELSE IF i = 1 \/ ~IsLetter(raw[i - 1]) THEN Upper(raw[i])
            ELSE Lower(raw[i])])

UnknownClassRefs == { Str(WarLockName), Str(<< "b", "o", "g", "u", "s" >>) }

\* The classes a description names: its classes, or its "class" attribute.
NamedClasses(d) ==
    IF d.classes.items # << >> THEN d.classes.items
    ELSE IF d.attrs.class_ # None THEN << d.attrs.class_ >>
    ELSE << >>

\* The description names as many levels as classes, so that an unknown class
\* name is all that is wrong with it.
WellShaped(d) ==
    d.classes.items # << >> => Len(d.levels.items) = Len(d.classes.items)

\* C6: add_class with a class name the catalog does not have fails with an
\* error and leaves class_list as it was; no entry of class_list is ever a
\* placeholder; a construction that meets such a name is aborted.
C6_UnknownClassRejected ==
    /\ (ret.op = "add_class" /\ ret.arg \in UnknownClassRefs)
            => error = "AttributeError" /\ class_list = ret.before
    /\ \A i \in DOMAIN class_list : class_list[i].name \in ClassNames
    /\ ( /\ ret.op = "__init__"
         /\ WellShaped(ret.arg)
         /\ \E i \in DOMAIN NamedClasses(ret.arg) :
                NamedClasses(ret.arg)[i] \in UnknownClassRefs )
            => pc = "aborted" /\ error = "AttributeError"

\* add_class("war lock", ...) on a constructed single-class character.
C6_Witness ==
    /\ pc = "ready"
    /\ ret.op = "add_class"
    /\ ret.arg = Str(WarLockName)
    /\ error = "AttributeError"
    /\ Len(class_list) = 1
    /\ class_list = ret.before

(***************************************************************************)
(* An explicit hp_max: the property                                        *)
(***************************************************************************)
\* C11: when the description gives an hp_max, construction sets hp_max to that
\* value for every integer given, and fails with an error for a value that is
\* not an integer.
C11_ExplicitHpUsed ==
    (ret.op = "__init__" /\ ret.arg.attrs.hp_max # None)
        => IF ret.arg.attrs.hp_max.kind = "int"
           THEN pc = "ready" /\ hp_max = ret.arg.attrs.hp_max
           ELSE pc = "aborted" /\ error # "none"

(***************************************************************************)
(* Features: union, one entry per name, sorted                             *)
(***************************************************************************)
\* What the race grants at the levels 1 .. total level.
LevelGatedNames ==
    IF _race = None THEN {}
    ELSE UNION { FeaturesByLevel(_race, lvl) : lvl \in 1 .. TotalLevel }

ContributedNames == CustomNames \cup ClassEntryNames \cup OriginNames \cup LevelGatedNames

\* name a comes before name b in the order of names.
NameBefore(a, b) ==
    \E i, j \in DOMAIN FeatureOrder :
        i < j /\ FeatureOrder[i] = a /\ FeatureOrder[j] = b

\* C12: Character.features returns the union of the custom features, every
\* class entry's features, the race's features (with those of the levels 1 ..
\* total level) and the background's features, one entry per name, sorted by
\* name; apart from the Fighting Style placeholder nothing contributed is missing.
C12_FeaturesUnionSorted ==
    FeaturesRead
        => /\ Returned \subseteq ContributedNames
           /\ ContributedNames \ {"Fighting Style (Select One)"} \subseteq Returned
           /\ \A i, j \in DOMAIN ret.val : i < j => NameBefore(ret.val[i], ret.val[j])

\* An Aasimar of total level 3 who also declares Darkvision: one Darkvision,
\* and the feature of level 3.
C12_Witness ==
    /\ FeaturesRead
    /\ _race # None /\ _race.name = "Aasimar"
    /\ TotalLevel = 3
    /\ "Darkvision" \in CustomNames
    /\ ret.val = << "Darkvision", "Radiant Soul" >>

(***************************************************************************)
(* Spells: the properties                                                  *)
(***************************************************************************)
\* spell name a comes before spell name b in the order of names.
SpellBefore(a, b) ==
    \E i, j \in DOMAIN SpellOrder : i < j /\ SpellOrder[i] = a /\ SpellOrder[j] = b

DeclaredKnown == { _spells[i] : i \in DOMAIN _spells }

DeclaredPrepared == { _spells_prepared[i] : i \in DOMAIN _spells_prepared }

\* C13: spells and spells_prepared each return a sequence sorted by name in
\* which no name occurs twice, however often a spell was declared or granted;
\* a name declared twice is one entry of spells.
C13_SpellsSortedDistinct ==
    /\ (pc = "ready" /\ ret.op \in {"spells", "spells_prepared"})
            => \A i, j \in DOMAIN ret.val : i < j => SpellBefore(ret.val[i], ret.val[j])
    /\ (pc = "ready" /\ ret.op = "spells")
            => \A n \in DeclaredKnown \cup DeclaredPrepared :
                    Cardinality({ i \in DOMAIN ret.val : ret.val[i] = n }) = 1

\* The unknown name "hocus pocus" declared twice: two placeholders, one entry.
C13_Witness ==
    /\ pc = "ready"
    /\ ret.op = "spells"
    /\ _spells = << "Hocus Pocus", "Hocus Pocus" >>
    /\ ret.val = << "Hocus Pocus" >>

\* C18: every spell of spells_prepared is a spell of spells.
C18_PreparedAreKnown ==
    (pc = "ready" /\ ret.op = "spells_prepared")
        => \A i \in DOMAIN ret.val :
              \E j \in DOMAIN spells(_spells, _spells_prepared,
                                     features(custom_features, class_list, _race, _background),
                                     class_list, _race) :
                  spells(_spells, _spells_prepared,
                         features(custom_features, class_list, _race, _background),
                         class_list, _race)[j] = ret.val[i]

\* Shield is declared as prepared only, and Light is prepared by the race.
C18_Witness ==
    /\ pc = "ready"
    /\ ret.op = "spells_prepared"
    /\ "Shield" \in DeclaredPrepared
    /\ "Shield" \notin DeclaredKnown
    /\ ret.val = << "Light", "Shield" >>

(***************************************************************************)
(* add_classes: the property                                               *)
(***************************************************************************)
\* The length of an argument of add_classes: a single value counts as one.
SequenceLength(arg) == IF arg.kind = "list" THEN Len(arg.items) ELSE 1

LengthsDiffer ==
    \/ SequenceLength(ret.classes) # SequenceLength(ret.levels)
    \/ SequenceLength(ret.classes) # SequenceLength(ret.subclasses)

\* C14: add_classes called with class, level and subclass sequences that do
\* not all have the same length fails with the length-mismatch error (the
\* failed assertion) and leaves class_list as it was; called with single
\* values for all three it appends one entry.
C14_LengthMismatchRejected ==
    /\ (ret.op = "add_classes" /\ LengthsDiffer)
            => error = "AssertionError" /\ class_list = ret.before
    /\ ( /\ ret.op = "add_classes"
         /\ ret.classes.kind # "list"
         /\ ret.levels.kind # "list"
         /\ ret.subclasses.kind # "list" )
            => error = "none" /\ Len(class_list) = Len(ret.before) + 1

(***************************************************************************)
(* The class list: the properties                                          *)
(***************************************************************************)
\* Sequence a is the beginning of sequence b.
IsPrefix(a, b) == Len(a) <= Len(b) /\ \A i \in DOMAIN a : a[i] = b[i]

\* The description names no class: neither classes nor the "class" attribute.
NoClassSupplied(d) == Length(d.classes) = 0 /\ d.attrs.class_ = None

ClassAdded == pc = "ready" /\ ret.op \in {"add_class", "add_classes"}

C16_LevelSetsPrimary ==
    (pc = "ready" /\ ret.op = "level")
        => /\ error = "none"
           /\ Len(class_list) = Len(ret.before)
           /\ class_list[1] = [ret.before[1] EXCEPT !.level = ret.arg]
           /\ \A i \in DOMAIN class_list : i > 1 => class_list[i] = ret.before[i]
           /\ warned <=> Len(class_list) >= 2

\* level = 1 on Wizard 1 / Fighter 2 (lists of classes and levels).
C16_Witness ==
    /\ pc = "ready"
    /\ ret.op = "level"
    /\ Len(class_list) = 2
    /\ warned
    /\ ret.before[1].level # ret.arg
    /\ class_list[1].level = ret.arg
    /\ class_list[2].level # ret.arg

\* The same assignment on a character of one class: no warning.
C16_WitnessSingle ==
    /\ pc = "ready"
    /\ ret.op = "level"
    /\ Len(class_list) = 1
    /\ ~warned
    /\ ret.before[1].level # ret.arg
    /\ class_list[1].level = ret.arg

(***************************************************************************)
(* hp_max after construction: the property                                 *)
(***************************************************************************)
\* Construction computed hp_max from the class entries and the constitution it
\* leaves: after the description's constitution and level were set.
ComputedLast ==
    ( /\ pc = "ready"
      /\ ret.op = "__init__"
      /\ ret.arg.attrs.hp_max = None )
        => /\ ret.arg.attrs.constitution # None
                => constitution = ret.arg.attrs.constitution.val
           /\ hp_max = IntValue(ExpectedHitPoints)

\* A step that assigns the level or adds classes leaves hp_max as it was.
KeptByLaterCalls ==
    (pc = "ready" /\ ret'.op \in {"level", "add_class", "add_classes"})
        => hp_max' = hp_max

\* C17: hp_max is computed as the last step of construction, from the class
\* entries and the constitution the description sets, and no later level
\* assignment, add_class or add_classes changes it.
C17_HitPointsSetOnce == []ComputedLast /\ [][KeptByLaterCalls]_vars

\* After a level assignment hp_max is not what the entries would now give.
C17_Witness ==
    /\ pc = "ready"
    /\ ret.op = "level"
    /\ ret.before[1].level # class_list[1].level
    /\ constitution = 15
    /\ hp_max # IntValue(ExpectedHitPoints)

(***************************************************************************)
(* Spell slots up to level 20: the property                                *)
(***************************************************************************)
\* spell_slots read the pooled table: two or more spellcasting entries other
\* than Warlock, a spell level of 1..9 and an effective caster level that is not 0.
TableConsulted ==
    /\ Cardinality(OtherCasters) >= 2
    /\ ret.arg \in 1 .. 9
    /\ EffectiveCasterLevel # 0

\* C19: for a character whose class entries each have a level >= 1 and whose
\* levels sum to at most 20, spell_slots(spell_level) with spell_level in 0..9
\* does not fail and returns a non-negative integer, and whenever it reads the
\* pooled table the effective caster level is one of the table's rows 1..20
\* and at most the total level.
C19_SlotsDefinedUpToTwenty ==
    ( /\ SlotsRead
      /\ ret.arg \in 0 .. 9
      /\ TotalLevel <= 20
      /\ \A i \in DOMAIN class_list : class_list[i].level >= 1 )
        => /\ ret.raised = "none"
           /\ ret.val \in Nat
           /\ TableConsulted
                => /\ EffectiveCasterLevel \in DOMAIN multiclass_spellslots_by_level
                   /\ EffectiveCasterLevel \in 1 .. 20
                   /\ EffectiveCasterLevel <= TotalLevel

\* Two full casters of level 10 each: the table's last row, one slot of level 9.
C19_Witness ==
    /\ SlotsRead
    /\ TotalLevel = 20
    /\ TableConsulted
    /\ EffectiveCasterLevel = 20
    /\ ret.arg = 9
    /\ ret.raised = "none"
    /\ ret.val = 1

====
